---- MODULE Spec2Model ----
(***************************************************************************)
(* Model of src/src/lib/aiDetection.ts: the pattern registry (module-level *)
(* RegExp objects, each carrying a mutable lastIndex because of its g      *)
(* flag), the line scorer analyzeLine, the structure analyzer              *)
(* analyzeCodeStructure and the aggregator analyzeCode.                    *)
(*                                                                         *)
(* Strings are TLA+ strings; offsets are 0-based as in JavaScript.         *)
(***************************************************************************)
EXTENDS Integers, Sequences, FiniteSets, Bags, TLC

(***************************************************************************)
(* IEEE 754 binary64 arithmetic, as JavaScript numbers compute it.         *)
(* Wide naturals are three limbs <<high, middle, low>> in base 2^27 (every *)
(* intermediate stays below 2^31).  A number is NaN or a non-negative      *)
(* finite value m * 2^e held in canonical form: m = 0 and e = 0, or        *)
(* 2^52 <= m < 2^53.  Negative values, infinities, subnormals and          *)
(* overflow do not occur in the program.                                   *)
(***************************************************************************)
LimbBase == 134217728

WZero == <<0, 0, 0>>

WOne == <<0, 0, 1>>

\* 2^52 and 2^53
WMantMin == <<0, 33554432, 0>>

WMantTop == <<0, 67108864, 0>>

WLess(a, b) ==
  \/ a[1] < b[1]
  \/ a[1] = b[1] /\ a[2] < b[2]
  \/ a[1] = b[1] /\ a[2] = b[2] /\ a[3] < b[3]

WAdd(a, b) ==
  LET l0 == a[3] + b[3]
      l1 == a[2] + b[2] + (l0 \div LimbBase)
      l2 == a[1] + b[1] + (l1 \div LimbBase)
  IN  <<l2, l1 % LimbBase, l0 % LimbBase>>

\* a - b for a >= b
WSub(a, b) ==
  LET l0 == a[3] - b[3]
      b0 == IF l0 < 0 THEN 1 ELSE 0
      l1 == a[2] - b[2] - b0
      b1 == IF l1 < 0 THEN 1 ELSE 0
      l2 == a[1] - b[1] - b1
  IN  <<l2, l1 + b1 * LimbBase, l0 + b0 * LimbBase>>

WShl1(a) == WAdd(a, a)

WShr1(a) ==
  << a[1] \div 2,
     (a[1] % 2) * (LimbBase \div 2) + (a[2] \div 2),
     (a[2] % 2) * (LimbBase \div 2) + (a[3] \div 2) >>

WOdd(a) == a[3] % 2 = 1

RECURSIVE WShl(_, _)
WShl(a, n) == IF n = 0 THEN a ELSE WShl(WShl1(a), n - 1)

\* a * n for a natural n, by binary shift-and-add
RECURSIVE WMulNat(_, _)
WMulNat(a, n) ==
  IF n = 0 THEN WZero
  ELSE LET h == WShl1(WMulNat(a, n \div 2))
       IN  IF n % 2 = 1 THEN WAdd(h, a) ELSE h

NaN == [nan |-> TRUE, m |-> WZero, e |-> 0]

FZero == [nan |-> FALSE, m |-> WZero, e |-> 0]

Finite(m, e) == [nan |-> FALSE, m |-> m, e |-> e]

\* one normalisation step of the value (m + fraction) * 2^e, m # 0: guard is
\* the first bit of the fraction, sticky says that a later bit of it is set
Normalise(v) ==
  IF WLess(v.m, WMantMin)
  THEN [m |-> WShl1(v.m), e |-> v.e - 1, guard |-> FALSE, sticky |-> FALSE]
  ELSE [m |-> WShr1(v.m), e |-> v.e + 1, guard |-> WOdd(v.m),
        sticky |-> v.guard \/ v.sticky]

\* round to nearest, ties to even
RECURSIVE FRound(_)
FRound(v) ==
  IF v.m = WZero THEN FZero
  ELSE IF WLess(v.m, WMantMin) \/ ~WLess(v.m, WMantTop) THEN FRound(Normalise(v))
  ELSE IF v.guard /\ (v.sticky \/ WOdd(v.m))
       THEN LET up == WAdd(v.m, WOne)
            IN  IF up = WMantTop THEN Finite(WMantMin, v.e + 1) ELSE Finite(up, v.e)
  ELSE Finite(v.m, v.e)

Exact(m, e) == [m |-> m, e |-> e, guard |-> FALSE, sticky |-> FALSE]

\* the number equal to the natural n
FromNat(n) == FRound(Exact(<<0, 0, n>>, 0))

\* one step of restoring division by d: the quotient q gets one more bit
DivStep(st, d) ==
  LET r2 == WShl1(st.r)
  IN  IF WLess(r2, d)
      THEN [q |-> WShl1(st.q), r |-> r2, n |-> st.n - 1]
      ELSE [q |-> WAdd(WShl1(st.q), WOne), r |-> WSub(r2, d), n |-> st.n - 1]

RECURSIVE DivSteps(_, _)
DivSteps(st, d) == IF st.n = 0 THEN st ELSE DivSteps(DivStep(st, d), d)

DivBits == 55

\* x / y
FDiv(x, y) ==
  IF x.nan \/ y.nan \/ (x.m = WZero /\ y.m = WZero) THEN NaN
  ELSE IF x.m = WZero THEN FZero
  ELSE LET st == IF WLess(x.m, y.m)
                 THEN [q |-> WZero, r |-> x.m, n |-> DivBits]
                 ELSE [q |-> WOne, r |-> WSub(x.m, y.m), n |-> DivBits]
           qr == DivSteps(st, y.m)
       IN  FRound([m |-> qr.q, e |-> x.e - y.e - DivBits, guard |-> FALSE,
                   sticky |-> qr.r # WZero])

AlignMax == 27

\* x + y
FAdd(x, y) ==
  IF x.nan \/ y.nan THEN NaN
  ELSE IF x.m = WZero THEN y
  ELSE IF y.m = WZero THEN x
  ELSE LET hi == IF x.e >= y.e THEN x ELSE y
           lo == IF x.e >= y.e THEN y ELSE x
           d  == hi.e - lo.e
       IN  IF d > AlignMax THEN hi
           ELSE FRound(Exact(WAdd(WShl(hi.m, d), lo.m), lo.e))

\* x * n for the number x and a natural n
FMulNat(x, n) ==
  IF x.nan THEN NaN ELSE FRound(Exact(WMulNat(x.m, n), x.e))

\* x < y
FLess(x, y) ==
  /\ ~x.nan /\ ~y.nan
  /\ y.m # WZero
  /\ \/ x.m = WZero
     \/ x.e < y.e
     \/ x.e = y.e /\ WLess(x.m, y.m)

\* Math.max and Math.min
FMax(x, y) == IF x.nan \/ y.nan THEN NaN ELSE IF FLess(x, y) THEN y ELSE x

FMin(x, y) == IF x.nan \/ y.nan THEN NaN ELSE IF FLess(y, x) THEN y ELSE x

\* the decimal literal n/d (n, d naturals that are exactly representable)
Dec(n, d) == FDiv(FromNat(n), FromNat(d))

(***************************************************************************)
(* Characters and character classes of the regular expressions.            *)
(***************************************************************************)
CharAt(s, i) == SubSeq(s, i + 1, i + 1)

CharsOf(s) == { SubSeq(s, k, k) : k \in 1..Len(s) }

UpperCase == "ABCDEFGHIJKLMNOPQRSTUVWXYZ"

LowerCase == "abcdefghijklmnopqrstuvwxyz"

\* canonical form of a character under the i flag
Canon(c) ==
  IF \E k \in 1..26 : SubSeq(UpperCase, k, k) = c
  THEN LET k == CHOOSE k \in 1..26 : SubSeq(UpperCase, k, k) = c
       IN  SubSeq(LowerCase, k, k)
  ELSE c

\* \d
DigitChars == CharsOf("0123456789")

\* \w
WordChars == CharsOf(UpperCase) \cup CharsOf(LowerCase) \cup DigitChars \cup {"_"}

\* \s (also the characters String.prototype.trim removes)
SpaceChars == {" ", "\t", "\n", "\r", "\f"}

\* the characters "." does not match, and before which "$" matches under m
LineTerminators == {"\n", "\r"}

(***************************************************************************)
(* Regular expressions as syntax trees.                                    *)
(***************************************************************************)
Lit(w) == [t |-> "lit", w |-> w, ci |-> FALSE]

LitI(w) == [t |-> "lit", w |-> w, ci |-> TRUE]

In(cs) == [t |-> "set", cs |-> cs]

NotIn(cs) == [t |-> "nset", cs |-> cs]

Cat(rs) == [t |-> "cat", rs |-> rs]

Alt(rs) == [t |-> "alt", rs |-> rs]

Star(r) == [t |-> "star", r |-> r]

LazyStar(r) == [t |-> "lazy", r |-> r]

Plus(r) == Cat(<<r, Star(r)>>)

Group1(r) == [t |-> "grp", r |-> r]

BackRef1 == [t |-> "ref"]

WordB == [t |-> "wordb"]

EndOfLine == [t |-> "eol"]

Dot == NotIn(LineTerminators)

AnyChar == NotIn({})

Space == In(SpaceChars)

Word == In(WordChars)

Digit == In(DigitChars)

(***************************************************************************)
(* Backtracking matcher.  A matcher state is the offset reached and the    *)
(* span captured by group 1.  Match(re, s, st) is the sequence of states   *)
(* in which re can end when started in st, in the order in which a         *)
(* backtracking engine tries them: the head is the match the engine        *)
(* reports.                                                                *)
(***************************************************************************)
IsWordAt(s, i) == i >= 0 /\ i < Len(s) /\ CharAt(s, i) \in WordChars

LitMatches(re, s, i) ==
  /\ i + Len(re.w) <= Len(s)
  /\ \A k \in 1..Len(re.w) :
       IF re.ci
       THEN Canon(CharAt(s, i + k - 1)) = Canon(SubSeq(re.w, k, k))
       ELSE CharAt(s, i + k - 1) = SubSeq(re.w, k, k)

RECURSIVE Match(_, _, _)
RECURSIVE MatchEach(_, _, _)
RECURSIVE MatchCat(_, _, _)
RECURSIVE MatchAlt(_, _, _)

\* re applied to every state of sts, results kept in order
MatchEach(re, s, sts) ==
  IF sts = <<>> THEN <<>>
  ELSE Match(re, s, Head(sts)) \o MatchEach(re, s, Tail(sts))

\* the regexes rs one after the other
MatchCat(rs, s, sts) ==
  IF rs = <<>> \/ sts = <<>> THEN sts
  ELSE MatchCat(Tail(rs), s, MatchEach(Head(rs), s, sts))

\* the regexes rs as alternatives, leftmost first
MatchAlt(rs, s, st) ==
  IF rs = <<>> THEN <<>>
  ELSE Match(Head(rs), s, st) \o MatchAlt(Tail(rs), s, st)

Match(re, s, st) ==
  LET i == st.p IN
  CASE re.t = "lit" ->
         IF LitMatches(re, s, i) THEN <<[st EXCEPT !.p = i + Len(re.w)]>> ELSE <<>>
    [] re.t = "set" ->
         IF i < Len(s) /\ CharAt(s, i) \in re.cs THEN <<[st EXCEPT !.p = i + 1]>> ELSE <<>>
    [] re.t = "nset" ->
         IF i < Len(s) /\ CharAt(s, i) \notin re.cs THEN <<[st EXCEPT !.p = i + 1]>> ELSE <<>>
    [] re.t = "cat" -> MatchCat(re.rs, s, <<st>>)
    [] re.t = "alt" -> MatchAlt(re.rs, s, st)
    [] re.t = "star" ->
         LET once == SelectSeq(Match(re.r, s, st), LAMBDA x : x.p > i)
         IN  MatchEach(re, s, once) \o <<st>>
    [] re.t = "lazy" ->
         LET once == SelectSeq(Match(re.r, s, st), LAMBDA x : x.p > i)
         IN  <<st>> \o MatchEach(re, s, once)
    [] re.t = "grp" ->
         LET ends == Match(re.r, s, st)
         IN  [k \in 1..Len(ends) |-> [ends[k] EXCEPT !.g = <<i, ends[k].p>>]]
    [] re.t = "ref" ->
         LET n == st.g[2] - st.g[1] IN
         IF i + n <= Len(s) /\ SubSeq(s, i + 1, i + n) = SubSeq(s, st.g[1] + 1, st.g[2])
         THEN <<[st EXCEPT !.p = i + n]>> ELSE <<>>
    [] re.t = "wordb" ->
         IF IsWordAt(s, i - 1) # IsWordAt(s, i) THEN <<st>> ELSE <<>>
    [] re.t = "eol" ->
         IF i = Len(s) \/ CharAt(s, i) \in LineTerminators THEN <<st>> ELSE <<>>

StartAt(i) == [p |-> i, g |-> <<0, 0>>]

NoMatch == -1

\* the matches of re in s: <<start, end>> for every offset at which re matches
MatchSpans(re, s) ==
  { <<k, Head(Match(re, s, StartAt(k))).p>> :
      k \in { j \in 0..Len(s) : Match(re, s, StartAt(j)) # <<>> } }

\* end offset of the leftmost of the matches spans that starts at i or later
FirstFrom(spans, i) ==
  LET later == { sp \in spans : sp[1] >= i }
  IN  IF later = {} THEN NoMatch
      ELSE (CHOOSE sp \in later : \A other \in later : sp[1] <= other[1])[2]

\* end offset of the leftmost match of re in s starting at offset i or later
Search(re, s, i) == FirstFrom(MatchSpans(re, s), i)

(***************************************************************************)
(* The pattern registry.  Every pattern is a RegExp with the g flag, so    *)
(* each one owns a lastIndex; id is the pattern's slot in lastIndex.       *)
(***************************************************************************)
CommentRe ==
  Alt(<< Cat(<<Lit("/*"), LazyStar(AnyChar), Lit("*/")>>),
         Cat(<<Lit("//"), Star(Dot), EndOfLine>>) >>)

GenericNameRe ==
  Cat(<< WordB,
         Alt(<<LitI("result"), LitI("response"), LitI("data"), LitI("item"),
               LitI("element"), LitI("value"), LitI("temp"), LitI("obj"),
               LitI("arr")>>),
         Star(Digit), WordB >>)

ErrorHandlingRe ==
  Alt(<< Cat(<<Lit("try"), Star(Space), Lit("{")>>),
         Cat(<<Lit("catch"), Star(Space), Lit("(")>>),
         Cat(<<Lit("finally"), Star(Space), Lit("{")>>) >>)

RepetitiveRe ==
  Cat(<<Group1(Plus(Word)), Star(Space), Lit("="), Star(Space), BackRef1>>)

TodoRe ==
  Cat(<< Alt(<<LitI("TODO"), LitI("FIXME"), LitI("NOTE"), LitI("HACK")>>),
         Lit(":") >>)

RegexLiteralRe ==
  Cat(<< Lit("/"),
         Star(Alt(<<Cat(<<Lit("\\"), Dot>>), NotIn({"/", "\\", "\n"})>>)),
         Lit("/"),
         Star(In({"g", "i", "m", "u", "y"})) >>)

SpacingRe ==
  Alt(<< Cat(<<Space, Space, Space, Star(Space)>>),
         Cat(<<Lit("\t"), Plus(Space)>>),
         Cat(<<Plus(Space), Lit("\t")>>) >>)

AbbreviationRe ==
  Cat(<< WordB,
         Alt(<<LitI("btn"), LitI("txt"), LitI("img"), LitI("nav"), LitI("auth"),
               LitI("admin"), LitI("cfg"), LitI("opts"), LitI("params"),
               LitI("args"), LitI("ctx"), LitI("req"), LitI("res"), LitI("db"),
               LitI("api")>>),
         WordB >>)

ConsoleLogRe ==
  Cat(<<Lit("console"), Lit("."), Lit("log"), Lit("("), Star(NotIn({")"})), Lit(")")>>)

FunctionDeclRe ==
  Cat(<< Lit("function"), Plus(Space), Plus(Word), Star(Space), Lit("("),
         Star(NotIn({")"})), Lit(")"), Star(Space), Lit("{") >>)

PrintRe ==
  Cat(<<Lit("print"), Lit("("), Star(NotIn({")"})), Lit(")")>>)

DefRe ==
  Cat(<< Lit("def"), Plus(Space), Plus(Word), Star(Space), Lit("("),
         Star(NotIn({")"})), Lit(")"), Lit(":") >>)

TypeAnnotationRe ==
  Cat(<< Lit(":"), Star(Space),
         Alt(<<Lit("string"), Lit("number"), Lit("boolean"), Lit("any"),
               Lit("unknown"), Lit("void"), Lit("never")>>),
         WordB >>)

\* the weights, as the numbers their decimal literals denote
W01 == Dec(1, 10)

W02 == Dec(2, 10)

W03 == Dec(3, 10)

W04 == Dec(4, 10)

W05 == Dec(5, 10)

\* the other numeric literals of the source
NeutralConfidence == Dec(5, 10)

MinConfidence == Dec(1, 10)

MaxConfidence == Dec(95, 100)

BoostThreshold == Dec(5, 10)

BoostAmount == Dec(1, 10)

IndentationThreshold == Dec(9, 10)

CommentThreshold == Dec(3, 10)

DefensiveFactor == Dec(1, 10)

ScoreCap == FromNat(1)

\* the numbers of the small naturals (lengths and counts)
NatMemo == [ n \in 0..255 |-> FromNat(n) ]

Num(n) == IF n \in DOMAIN NatMemo THEN NatMemo[n] ELSE FromNat(n)

AI_PATTERNS ==
  << [id |-> 1, pattern |-> CommentRe, weight |-> W03, aiIndicator |-> TRUE,
      reason |-> "Contains verbose or generic comments typical of AI generation"],
     [id |-> 2, pattern |-> GenericNameRe, weight |-> W04, aiIndicator |-> TRUE,
      reason |-> "Uses generic variable names common in AI-generated code"],
     [id |-> 3, pattern |-> ErrorHandlingRe, weight |-> W02, aiIndicator |-> TRUE,
      reason |-> "Contains comprehensive error handling patterns"],
     [id |-> 4, pattern |-> RepetitiveRe, weight |-> W03, aiIndicator |-> TRUE,
      reason |-> "Contains repetitive assignment patterns"],
     [id |-> 5, pattern |-> TodoRe, weight |-> W05, aiIndicator |-> FALSE,
      reason |-> "Contains TODO/FIXME comments suggesting human planning"],
     [id |-> 6, pattern |-> RegexLiteralRe, weight |-> W03, aiIndicator |-> FALSE,
      reason |-> "Contains complex regex patterns"],
     [id |-> 7, pattern |-> SpacingRe, weight |-> W02, aiIndicator |-> FALSE,
      reason |-> "Has inconsistent spacing typical of human editing"],
     [id |-> 8, pattern |-> AbbreviationRe, weight |-> W03, aiIndicator |-> FALSE,
      reason |-> "Uses domain-specific abbreviations common in human code"] >>

LANGUAGE_PATTERNS ==
  [ javascript |->
      << [id |-> 9, pattern |-> ConsoleLogRe, weight |-> W02, aiIndicator |-> FALSE,
          reason |-> "Contains debug console.log statements"],
         [id |-> 10, pattern |-> FunctionDeclRe, weight |-> W01, aiIndicator |-> TRUE,
          reason |-> "Uses function declarations"] >>,
    python |->
      << [id |-> 11, pattern |-> PrintRe, weight |-> W02, aiIndicator |-> FALSE,
          reason |-> "Contains debug print statements"],
         [id |-> 12, pattern |-> DefRe, weight |-> W01, aiIndicator |-> TRUE,
          reason |-> "Uses function definitions"] >>,
    typescript |->
      << [id |-> 13, pattern |-> TypeAnnotationRe, weight |-> W02, aiIndicator |-> TRUE,
          reason |-> "Contains explicit type annotations"] >> ]

\* the slots of lastIndex: one per RegExp object of the registry
PatternIds == 1..13

\* property names every object literal inherits from Object.prototype; their
\* values are functions or plain objects: truthy and not iterable
ObjectPrototypeKeys ==
  { "constructor", "toString", "toLocaleString", "valueOf", "hasOwnProperty",
    "isPrototypeOf", "propertyIsEnumerable", "__proto__" }

NotIterable == "not iterable"

\* LANGUAGE_PATTERNS[language] || []
LangPatterns(language) ==
  IF language \in DOMAIN LANGUAGE_PATTERNS THEN LANGUAGE_PATTERNS[language]
  ELSE IF language \in ObjectPrototypeKeys THEN NotIterable
  ELSE <<>>

(***************************************************************************)
(* String helpers.                                                         *)
(***************************************************************************)
RECURSIVE TrimStart(_)
TrimStart(s) ==
  IF s # "" /\ CharAt(s, 0) \in SpaceChars THEN TrimStart(SubSeq(s, 2, Len(s))) ELSE s

RECURSIVE TrimEnd(_)
TrimEnd(s) ==
  IF s # "" /\ CharAt(s, Len(s) - 1) \in SpaceChars
  THEN TrimEnd(SubSeq(s, 1, Len(s) - 1)) ELSE s

\* String.prototype.trim
Trim(s) == TrimEnd(TrimStart(s))

\* code.split('\n')
RECURSIVE Split(_)
Split(code) ==
  LET breaks == { k \in 1..Len(code) : SubSeq(code, k, k) = "\n" }
  IN  IF breaks = {} THEN <<code>>
      ELSE LET k == CHOOSE b \in breaks : \A c \in breaks : b <= c
           IN  <<SubSeq(code, 1, k - 1)>> \o Split(SubSeq(code, k + 1, Len(code)))

\* RegExp.prototype.test of a regex with the g flag whose lastIndex is from,
\* on a string of length len in which the regex matches at spans: whether it
\* matched, and the lastIndex it leaves behind
TestFrom(spans, len, from) ==
  LET end == IF from > len THEN NoMatch ELSE FirstFrom(spans, from)
  IN  IF end = NoMatch
      THEN [matched |-> FALSE, lastIndex |-> 0]
      ELSE [matched |-> TRUE, lastIndex |-> end]

RegExpTest(re, s, from) == TestFrom(MatchSpans(re, s), Len(s), from)

\* s.match(re) !== null for a regex without the g flag
Matches(re, s) == Search(re, s, 0) # NoMatch

\* (s.match(re) || []).length for a regex with the g flag (a fresh literal,
\* so the scan starts at 0); no regex used this way matches the empty string
RECURSIVE CountFrom(_, _, _)
CountFrom(re, s, from) ==
  LET end == Search(re, s, from)
  IN  IF end = NoMatch THEN 0 ELSE 1 + CountFrom(re, s, end)

MatchCount(re, s) == CountFrom(re, s, 0)

(***************************************************************************)
(* The inputs the model draws from, and tables of the pure regex results   *)
(* over them (each table entry is the value of the operator it tabulates). *)
(***************************************************************************)
LongLine ==
  "const response = await fetchAll(primary, secondary, tertiary).then(process).then(validate).then(format).then(store).then(report);"

Snippets ==
  { "",
    "// TODO: fix this hack later",
    "// data",
    "x = x;\nx = x;\n  const value = items.filter(isValid).map(toResult);",
    "// try data\nx = x;\n\nconsole.log(foo);",
    LongLine }

Languages == {"javascript", "ruby", "constructor"}

Inputs == Snippets \X Languages

\* the inputs of the concurrent callers
ConcurrentInputs ==
  { "x = x;\nx = x;\n  const value = items.filter(isValid).map(toResult);",
    "// try data\nx = x;\n\nconsole.log(foo);" } \X {"javascript", "ruby"}

Range(f) == { f[k] : k \in DOMAIN f }

Contents == UNION { { Trim(l) : l \in Range(Split(code)) } : code \in Snippets }

AllPatterns ==
  AI_PATTERNS \o LANGUAGE_PATTERNS.javascript \o LANGUAGE_PATTERNS.python
              \o LANGUAGE_PATTERNS.typescript

SpanMemo ==
  [ id \in PatternIds |-> [ s \in Contents |-> MatchSpans(AllPatterns[id].pattern, s) ] ]

\* pattern.pattern.test(content) with pattern.pattern.lastIndex = from
PatternTest(pattern, content, from) ==
  IF content \in Contents
  THEN TestFrom(SpanMemo[pattern.id][content], Len(content), from)
  ELSE RegExpTest(pattern.pattern, content, from)

(***************************************************************************)
(* analyzeCodeStructure.  The two regex literals of the function are fresh *)
(* objects on every call, so they carry no state.  A quotient x / 0 with   *)
(* x > 0 cannot arise: a comment match needs a non-blank line.             *)
(***************************************************************************)
DefensiveRe ==
  Alt(<<Lit("try"), Lit("catch"), Lit("throw"), Lit("Error"), Lit("Exception")>>)

\* line.match(/^\s*/)?.[0] || ''
Indent(line) == SubSeq(line, 1, Head(Match(Star(Space), line, StartAt(0))).p)

StartsWith(s, prefix) ==
  Len(prefix) <= Len(s) /\ SubSeq(s, 1, Len(prefix)) = prefix

\* one iteration of the indentation loop
IndentStep(st, line) ==
  LET indent  == Indent(line)
      pattern == IF st.indentPattern = "" /\ indent # "" THEN indent
                 ELSE st.indentPattern
  IN  [ indentPattern |-> pattern,
        consistentIndentation |->
          IF indent = pattern \/ indent = "" \/ StartsWith(indent, pattern)
          THEN st.consistentIndentation + 1 ELSE st.consistentIndentation ]

RECURSIVE IndentLoop(_, _)
IndentLoop(st, lines) ==
  IF lines = <<>> THEN st ELSE IndentLoop(IndentStep(st, Head(lines)), Tail(lines))

NonBlank(lines) == SelectSeq(lines, LAMBDA l : Trim(l) # "")

\* the three structural criteria of a snippet
StructureCriteria(code) ==
  LET lines == NonBlank(Split(code))
      n     == Len(lines)
      loop  == IndentLoop([indentPattern |-> "", consistentIndentation |-> 0], lines)
      commentRatio == FDiv(Num(MatchCount(CommentRe, code)), Num(n))
      errorHandlingCount == MatchCount(DefensiveRe, code)
  IN  [ indentation |->
          FLess(IndentationThreshold, FDiv(Num(loop.consistentIndentation), Num(n))),
        comments  |-> FLess(CommentThreshold, commentRatio),
        defensive |-> FLess(FMulNat(DefensiveFactor, n), Num(errorHandlingCount)),
        lines     |-> n ]

\* StructureSum with the indentation criterion weighted 0.4
StructureSumHeavy(c) ==
  LET s1 == IF c.indentation THEN FAdd(FZero, W04) ELSE FZero
      s2 == IF c.comments THEN FAdd(s1, W02) ELSE s1
      s3 == IF c.defensive THEN FAdd(s2, W02) ELSE s2
  IN  FMin(s3, ScoreCap)

\* the additive score of the criteria c, capped at 1
StructureSum(c) ==
  LET s1 == IF c.indentation THEN FAdd(FZero, W03) ELSE FZero
      s2 == IF c.comments THEN FAdd(s1, W02) ELSE s1
      s3 == IF c.defensive THEN FAdd(s2, W02) ELSE s2
  IN  FMin(s3, ScoreCap)

analyzeCodeStructure(code) == StructureSum(StructureCriteria(code))

StructureMemo == [ code \in Snippets |-> analyzeCodeStructure(code) ]

\* analyzeCodeStructure(code), looked up for the snippets of the model
StructureScore(code) ==
  IF code \in Snippets THEN StructureMemo[code] ELSE analyzeCodeStructure(code)

(***************************************************************************)
(* analyzeLine.  lastIndex is the registry state the call finds; the       *)
(* result carries the state it leaves.                                     *)
(***************************************************************************)
PunctuationRe == In({"{", "}", "(", ")", ";", ","})

CodeSafeChars ==
  WordChars \cup SpaceChars \cup
  { "(", ")", "[", "]", "{", "}", ";", ":", ",", ".", "<", ">", "!", "@", "#",
    "$", "%", "^", "&", "*", "+", "=", "|", "\\", "?", "/", "-" }

UnsafeCharRe == NotIn(CodeSafeChars)

PlaceholderRe ==
  Cat(<< WordB,
         Alt(<<LitI("foo"), LitI("bar"), LitI("baz"), LitI("qux"), LitI("quirky"),
               LitI("magic"), LitI("hack"), LitI("wtf")>>),
         WordB >>)

MatchMemo ==
  [ s \in Contents |->
      [ punctuation |-> Matches(PunctuationRe, s),
        unsafe      |-> Matches(UnsafeCharRe, s),
        placeholder |-> Matches(PlaceholderRe, s) ] ]

\* content.match(re) for the three regex literals of the heuristics
ContentMatches(content) ==
  IF content \in Contents THEN MatchMemo[content]
  ELSE [ punctuation |-> Matches(PunctuationRe, content),
         unsafe      |-> Matches(UnsafeCharRe, content),
         placeholder |-> Matches(PlaceholderRe, content) ]

EmptyLineReason == "Empty line - neutral"

NeutralReason == "No significant patterns detected - neutral classification"

\* the bookkeeping of a test whose result is t
Tested(acc, pattern, t) ==
  IF ~t.matched THEN [acc EXCEPT !.lastIndex[pattern.id] = t.lastIndex]
  ELSE [ aiScore |-> IF pattern.aiIndicator
                     THEN FAdd(acc.aiScore, pattern.weight) ELSE acc.aiScore,
         humanScore |-> IF pattern.aiIndicator
                        THEN acc.humanScore ELSE FAdd(acc.humanScore, pattern.weight),
         reasons |-> Append(acc.reasons, pattern.reason),
         lastIndex |-> [acc.lastIndex EXCEPT ![pattern.id] = t.lastIndex] ]

\* pattern.pattern.test(content), and the bookkeeping of a match
ApplyPattern(acc, pattern, content) ==
  Tested(acc, pattern, PatternTest(pattern, content, acc.lastIndex[pattern.id]))

RECURSIVE ApplyPatterns(_, _, _)
ApplyPatterns(acc, patterns, content) ==
  IF patterns = <<>> THEN acc
  ELSE ApplyPatterns(ApplyPattern(acc, Head(patterns), content), Tail(patterns), content)

\* the standalone heuristics, in source order
LengthHeuristic(acc, content) ==
  IF Len(content) > 120
  THEN [acc EXCEPT !.aiScore = FAdd(@, W02),
                   !.reasons = Append(@, "Very long line length typical of AI generation")]
  ELSE IF Len(content) < 20 /\ ~ContentMatches(content).punctuation
  THEN [acc EXCEPT !.humanScore = FAdd(@, W01),
                   !.reasons = Append(@, "Short, concise line suggests human writing")]
  ELSE acc

SyntaxHeuristic(acc, content) ==
  IF ~ContentMatches(content).unsafe /\ Len(content) > 30
  THEN [acc EXCEPT !.aiScore = FAdd(@, W01),
                   !.reasons = Append(@, "Perfect syntax and structure")]
  ELSE acc

NamingHeuristic(acc, content) ==
  IF ContentMatches(content).placeholder
  THEN [acc EXCEPT !.humanScore = FAdd(@, W03),
                   !.reasons = Append(@, "Uses creative or placeholder naming typical of humans")]
  ELSE acc

Heuristics(acc, content) ==
  NamingHeuristic(SyntaxHeuristic(LengthHeuristic(acc, content), content), content)

\* the confidence of a line whose scores add up to totalScore
Confidence(acc, totalScore) ==
  FMin(FMax(IF FLess(FZero, totalScore)
            THEN FDiv(FMax(acc.aiScore, acc.humanScore), totalScore)
            ELSE NeutralConfidence,
            MinConfidence),
       MaxConfidence)

\* the verdict of a line from its accumulated scores
Verdict(line, acc) ==
  [ content    |-> line,
    isAI       |-> FLess(acc.humanScore, acc.aiScore),
    confidence |-> Confidence(acc, FAdd(acc.aiScore, acc.humanScore)),
    reasons    |-> IF acc.reasons = <<>> THEN <<NeutralReason>> ELSE acc.reasons ]

\* the early return for a blank line
BlankLine(line, lastIndex) ==
  [ threw |-> FALSE, lastIndex |-> lastIndex,
    aiScore |-> FZero, humanScore |-> FZero,
    analysis |-> [content |-> line, isAI |-> FALSE,
                  confidence |-> NeutralConfidence, reasons |-> <<EmptyLineReason>>] ]

\* The result also carries the raw scores of the line, which the source
\* keeps in locals.
Scored(line, acc) ==
  [ threw |-> FALSE, lastIndex |-> acc.lastIndex,
    aiScore |-> acc.aiScore, humanScore |-> acc.humanScore,
    analysis |-> Verdict(line, acc) ]

\* the rest of analyzeLine once the general patterns have left general
LanguageSpecific(line, content, langPatterns, general) ==
  IF langPatterns = NotIterable
  THEN [threw |-> TRUE, lastIndex |-> general.lastIndex]
  ELSE Scored(line, Heuristics(ApplyPatterns(general, langPatterns, content), content))

analyzeLine(line, language, lastIndex) ==
  IF Trim(line) = "" THEN BlankLine(line, lastIndex)
  ELSE LanguageSpecific(line, Trim(line), LangPatterns(language),
                        ApplyPatterns([aiScore |-> FZero, humanScore |-> FZero,
                                       reasons |-> <<>>, lastIndex |-> lastIndex],
                                      AI_PATTERNS, Trim(line)))

(***************************************************************************)
(* analyzeCode, from the expiry of its delay to its return.                *)
(***************************************************************************)
\* BoostApplies with >= for >
BoostAppliesAtThreshold(structureScore) == ~FLess(structureScore, BoostThreshold)

\* structureScore > 0.5
BoostApplies(structureScore) == FLess(BoostThreshold, structureScore)

\* Adjust without the cap on the boosted confidence
AdjustUncapped(analysis, structureScore) ==
  IF BoostApplies(structureScore) /\ analysis.isAI
  THEN [analysis EXCEPT !.confidence = FAdd(@, BoostAmount)]
  ELSE analysis

\* the adjustment of a verdict by the structure score
Adjust(analysis, structureScore) ==
  IF BoostApplies(structureScore) /\ analysis.isAI
  THEN [analysis EXCEPT !.confidence = FMin(FAdd(@, BoostAmount), MaxConfidence)]
  ELSE analysis

\* the loop state after analyzeLine returned r; scored records what
\* analyzeLine returned for each line, before the adjustment
Recorded(st, structureScore, r) ==
  IF r.threw THEN [st EXCEPT !.threw = TRUE, !.lastIndex = r.lastIndex]
  ELSE [ threw |-> FALSE, lastIndex |-> r.lastIndex,
         lineAnalysis |-> Append(st.lineAnalysis, Adjust(r.analysis, structureScore)),
         scored |-> Append(st.scored,
                           [analysis |-> r.analysis, aiScore |-> r.aiScore,
                            humanScore |-> r.humanScore]) ]

\* one iteration of the loop over the lines
LineStep(st, line, language, structureScore) ==
  IF st.threw THEN st
  ELSE Recorded(st, structureScore, analyzeLine(line, language, st.lastIndex))

RECURSIVE LineLoop(_, _, _, _)
LineLoop(st, lines, language, structureScore) ==
  IF lines = <<>> THEN st
  ELSE LineLoop(LineStep(st, Head(lines), language, structureScore),
                Tail(lines), language, structureScore)

RECURSIVE SumConfidence(_)
SumConfidence(ls) ==
  IF ls = <<>> THEN FZero
  ELSE FAdd(SumConfidence(SubSeq(ls, 1, Len(ls) - 1)), ls[Len(ls)].confidence)

\* Statistics without the guard on the division of overallConfidence
StatisticsUnguarded(lineAnalysis) ==
  LET nonEmptyLines == SelectSeq(lineAnalysis, LAMBDA l : Trim(l.content) # "")
      aiLines    == Len(SelectSeq(nonEmptyLines, LAMBDA l : l.isAI))
      humanLines == Len(nonEmptyLines) - aiLines
      totalLines == Len(nonEmptyLines)
  IN  [ totalLines |-> totalLines,
        aiLines    |-> aiLines,
        humanLines |-> humanLines,
        aiPercentage |->
          IF totalLines > 0
          THEN FMulNat(FDiv(Num(aiLines), Num(totalLines)), 100) ELSE FZero,
        humanPercentage |->
          IF totalLines > 0
          THEN FMulNat(FDiv(Num(humanLines), Num(totalLines)), 100) ELSE FZero,
        overallConfidence |->
          FDiv(SumConfidence(nonEmptyLines), Num(Len(nonEmptyLines))),
        lineAnalysis |-> lineAnalysis ]

\* the statistics of the report
Statistics(lineAnalysis) ==
  LET nonEmptyLines == SelectSeq(lineAnalysis, LAMBDA l : Trim(l.content) # "")
      aiLines    == Len(SelectSeq(nonEmptyLines, LAMBDA l : l.isAI))
      humanLines == Len(nonEmptyLines) - aiLines
      totalLines == Len(nonEmptyLines)
  IN  [ totalLines |-> totalLines,
        aiLines    |-> aiLines,
        humanLines |-> humanLines,
        aiPercentage |->
          IF totalLines > 0
          THEN FMulNat(FDiv(Num(aiLines), Num(totalLines)), 100) ELSE FZero,
        humanPercentage |->
          IF totalLines > 0
          THEN FMulNat(FDiv(Num(humanLines), Num(totalLines)), 100) ELSE FZero,
        overallConfidence |->
          IF Len(nonEmptyLines) > 0
          THEN FDiv(SumConfidence(nonEmptyLines), Num(Len(nonEmptyLines)))
          ELSE NeutralConfidence,
        lineAnalysis |-> lineAnalysis ]

\* the report or the exception, the registry state left behind, and what
\* analyzeLine returned for each line
Outcome(structureScore, loop) ==
  IF loop.threw
  THEN [threw |-> TRUE, lastIndex |-> loop.lastIndex]
  ELSE [threw |-> FALSE, lastIndex |-> loop.lastIndex,
        report |-> Statistics(loop.lineAnalysis),
        structureScore |-> structureScore, scored |-> loop.scored]

\* the body of analyzeCode
analyzeCode(code, language, lastIndex) ==
  Outcome(StructureScore(code),
          LineLoop([threw |-> FALSE, lastIndex |-> lastIndex,
                    lineAnalysis |-> <<>>, scored |-> <<>>],
                   Split(code), language, StructureScore(code)))

ZeroIndex == [id \in PatternIds |-> 0]

(***************************************************************************)
(* The state machine.  JavaScript runs each call's body to completion once *)
(* its timer has fired, so a call is two steps: Call (up to the await) and *)
(* Resume (the rest).  The timers expire in any order.                     *)
(***************************************************************************)
VARIABLES
  lastIndex,   \* lastIndex of each RegExp of the registry
  inFlight,    \* bag of the <<code, language>> of the calls awaiting their timer
  returned,    \* outcome of the call that completed last; first says that it
               \* found the registry as the module load left it
  structure    \* input and result of analyzeCodeStructure taken on its own

vars == <<lastIndex, inFlight, returned, structure>>

NoReturn == [kind |-> "none"]

NoStructure == [kind |-> "none"]

Init ==
  /\ lastIndex = ZeroIndex
  /\ inFlight = EmptyBag
  /\ returned = NoReturn
  /\ structure = NoStructure

\* analyzeCode(code, language) up to its await; at most limit calls in flight
Call(code, language, limit) ==
  /\ BagCardinality(inFlight) < limit
  /\ inFlight' = inFlight (+) SetToBag({<<code, language>>})
  /\ UNCHANGED <<lastIndex, returned, structure>>

\* the promise settles with the outcome r of the body
Settle(code, language, r) ==
  /\ lastIndex' = r.lastIndex
  /\ returned' =
       IF r.threw
       THEN [kind |-> "error", code |-> code, language |-> language,
             first |-> lastIndex = ZeroIndex]
       ELSE [kind |-> "report", code |-> code, language |-> language,
             first |-> lastIndex = ZeroIndex, report |-> r.report,
             structureScore |-> r.structureScore, scored |-> r.scored]

\* the timer of a call fires: the body runs and the promise settles
Resume(code, language) ==
  /\ BagIn(<<code, language>>, inFlight)
  /\ inFlight' = inFlight (-) SetToBag({<<code, language>>})
  /\ Settle(code, language, analyzeCode(code, language, lastIndex))
  /\ UNCHANGED structure

\* one caller that awaits each call before it makes the next
Next ==
  \E input \in Inputs :
    \/ Call(input[1], input[2], 1)
    \/ Resume(input[1], input[2])

Spec == Init /\ [][Next]_vars

MaxInFlight == 2

\* callers that do not wait for each other
ConcurrentNext ==
  \E input \in ConcurrentInputs :
    \/ Call(input[1], input[2], MaxInFlight)
    \/ Resume(input[1], input[2])

ConcurrentSpec == Init /\ [][ConcurrentNext]_vars

(***************************************************************************)
(* analyzeCodeStructure on its own, over every snippet of at most          *)
(* MaxStructLines lines drawn from StructLines.                            *)
(***************************************************************************)
MaxStructLines == 3

StructLines == {"", "  a", " b", " // b", "try", "// c"}

RECURSIVE Join(_)
Join(lines) ==
  IF Len(lines) = 1 THEN lines[1]
  ELSE Join(SubSeq(lines, 1, Len(lines) - 1)) \o "\n" \o lines[Len(lines)]

StructSnippets ==
  { Join(ls) : ls \in UNION { [1..n -> StructLines] : n \in 1..MaxStructLines } }

StructInit ==
  /\ lastIndex = ZeroIndex
  /\ inFlight = EmptyBag
  /\ returned = NoReturn
  /\ structure \in { [kind |-> "input", code |-> code] : code \in StructSnippets }

AnalyzeStructure ==
  /\ structure.kind = "input"
  /\ LET c == StructureCriteria(structure.code)
     IN  structure' = [kind |-> "score", code |-> structure.code, criteria |-> c,
                       score |-> StructureSum(c),
                       boost |-> BoostApplies(StructureSum(c))]
  /\ UNCHANGED <<lastIndex, inFlight, returned>>

StructNext == AnalyzeStructure

StructSpec == StructInit /\ [][StructNext]_vars

\* what the call would return if it were the only call the process ever made
Solo == [ input \in Inputs |-> analyzeCode(input[1], input[2], ZeroIndex) ]

(***************************************************************************)
(* The claims.                                                             *)
(***************************************************************************)
\* C1: a call that returns a report returns the report the previous call with
\* the same code and language returned.
C1_IdempotentAcrossCalls ==
  [][ ( /\ returned.kind = "report"
        /\ returned'.kind = "report"
        /\ returned'.code = returned.code
        /\ returned'.language = returned.language )
      => returned'.report = returned.report ]_vars

C3_CountsAndPercentages ==
  returned.kind = "report" =>
    LET r == returned.report
        nonBlank == SelectSeq(r.lineAnalysis, LAMBDA l : Trim(l.content) # "")
    IN  /\ r.aiLines + r.humanLines = r.totalLines
        /\ r.totalLines = Len(nonBlank)
        /\ IF r.totalLines > 0
           THEN FAdd(r.aiPercentage, r.humanPercentage) = Num(100)
           ELSE r.aiPercentage = FZero /\ r.humanPercentage = FZero

\* C4: in every report the confidence of a non-blank line lies in [0.1, 0.95]
\* and the verdict of a blank line is Human with confidence 0.5.
C4_ConfidenceRange ==
  returned.kind = "report" =>
    \A i \in DOMAIN returned.report.lineAnalysis :
      LET v == returned.report.lineAnalysis[i]
      IN  IF Trim(v.content) = ""
          THEN ~v.isAI /\ v.confidence = NeutralConfidence
          ELSE /\ ~v.confidence.nan
               /\ ~FLess(v.confidence, MinConfidence)
               /\ ~FLess(MaxConfidence, v.confidence)

\* a report of a snippet whose structural scalar exceeds 0.5, with a blank line
\* and an AI line whose boosted confidence was cut back to 0.95
C4_Witness ==
  /\ returned.kind = "report"
  /\ FLess(BoostThreshold, returned.structureScore)
  /\ \E i \in DOMAIN returned.scored : Trim(returned.scored[i].analysis.content) = ""
  /\ \E i \in DOMAIN returned.scored :
       /\ returned.scored[i].analysis.isAI
       /\ FLess(MaxConfidence, FAdd(returned.scored[i].analysis.confidence, BoostAmount))
       /\ returned.report.lineAnalysis[i].confidence = MaxConfidence

\* C5 as stated: the empty snippet yields totalLines = 0, overallConfidence =
\* 0.5 and an empty sequence of line verdicts.
C5_EmptySnippetNoVerdicts ==
  (returned.kind # "none" /\ returned.code = "") =>
    /\ returned.kind = "report"
    /\ returned.report.totalLines = 0
    /\ returned.report.overallConfidence = NeutralConfidence
    /\ returned.report.lineAnalysis = <<>>

\* C5: the empty snippet yields, in any language, totalLines = 0,
\* overallConfidence = 0.5 and exactly one line verdict, that of a blank line.
C5_EmptySnippet ==
  (returned.kind # "none" /\ returned.code = "") =>
    /\ returned.kind = "report"
    /\ returned.report.totalLines = 0
    /\ returned.report.overallConfidence = NeutralConfidence
    /\ returned.report.lineAnalysis =
         << [content |-> "", isAI |-> FALSE, confidence |-> NeutralConfidence,
             reasons |-> <<EmptyLineReason>>] >>

\* the empty snippet analysed after other calls, in a language whose lookup
\* in the registry does not yield a pattern list
C5_Witness ==
  /\ returned.kind = "report"
  /\ returned.code = ""
  /\ returned.language = "constructor"
  /\ ~returned.first

\* C6: a call whose language is not a key of the registry completes without
\* raising an error.
C6_TotalOverLanguages ==
  (returned.kind # "none" /\ returned.language \notin DOMAIN LANGUAGE_PATTERNS)
    => returned.kind = "report"

\* C7: on a first call the line "// TODO: fix this hack later" triggers exactly
\* the comment pattern, the TODO pattern and the placeholder heuristic, so that
\* aiScore = 0.3, humanScore = 0.8, the line is Human and its confidence is
\* 0.8 / 1.1.
C7_TodoScenario ==
  ( /\ returned.kind = "report"
    /\ returned.first
    /\ returned.code = "// TODO: fix this hack later" ) =>
    LET line == returned.scored[1]
        aiScore == FAdd(FZero, W03)
        humanScore == FAdd(FAdd(FZero, W05), W03)
    IN  /\ line.analysis.reasons =
             << AI_PATTERNS[1].reason, AI_PATTERNS[5].reason,
                "Uses creative or placeholder naming typical of humans" >>
        /\ line.aiScore = aiScore
        /\ line.humanScore = humanScore
        /\ ~line.analysis.isAI
        /\ returned.report.lineAnalysis[1].confidence =
             FDiv(humanScore, FAdd(aiScore, humanScore))

\* C8: within one call, even the first, two lines with the same text get the
\* same raw scores, classification and justifications from the line scorer.
C8_LineScorerPure ==
  (returned.kind = "report" /\ returned.first) =>
    \A i, j \in DOMAIN returned.scored :
      returned.scored[i].analysis.content = returned.scored[j].analysis.content
        => returned.scored[i] = returned.scored[j]

C10_StructureValues ==
  structure.kind = "score" =>
    /\ structure.score \in {FZero, W02, W03, W04, W05, Dec(7, 10)}
    /\ structure.score # ScoreCap
    /\ structure.boost <=>
         ( /\ structure.criteria.indentation
           /\ structure.criteria.comments
           /\ structure.criteria.defensive )
    /\ structure.criteria.lines = 0 => ~structure.boost

\* a snippet of several lines that meets the three criteria
C10_Witness ==
  /\ structure.kind = "score"
  /\ structure.criteria.lines > 1
  /\ structure.criteria.indentation
  /\ structure.criteria.comments
  /\ structure.criteria.defensive
  /\ structure.boost
====
